---- MODULE Spec2Model ----
(***************************************************************************)
(* Model of src/app.py: a Flask application that builds one RAG chain at   *)
(* import time and serves POST /chat (an SSE stream produced by the        *)
(* generator generate_stream) and GET /health.                             *)
(***************************************************************************)
EXTENDS Integers, Sequences, FiniteSets, TLC

\* ------------------------------------------------------------------ bounds
\* Most chunks the pipeline produces, all its invocations together.
MaxChunks == 3
\* Most environment variables that are unset or empty at startup.
MaxMissing == 2
\* Most fragments the retriever returns for one query (PipelineSpec).
MaxDocs == 2

\* The concurrent /chat requests (one worker each).
Requests == {"c1", "c2"}

\* ------------------------------------------------------- configuration
\* os.getenv gives None for a variable that is not set.
None == "<None>"

EmbeddingsGroup ==
    << "AZURE_OPENAI_ENDPOINT_EMBEDDINGS", "AZURE_OPENAI_API_KEY_EMBEDDINGS",
       "AZURE_OPENAI_EMBEDDING_DEPLOYMENT_NAME", "AZURE_OPENAI_API_VERSION_EMBEDDINGS" >>

ChatGroup ==
    << "AZURE_OPENAI_ENDPOINT_CHAT", "AZURE_OPENAI_API_KEY_CHAT",
       "AZURE_OPENAI_CHAT_DEPLOYMENT_NAME", "AZURE_OPENAI_API_VERSION_CHAT" >>

SearchGroup ==
    << "AZURE_AI_SEARCH_ENDPOINT", "AZURE_AI_SEARCH_API_KEY", "AZURE_AI_SEARCH_INDEX_NAME" >>

Range(s) == { s[i] : i \in DOMAIN s }

EnvNames == Range(EmbeddingsGroup) \cup Range(ChatGroup) \cup Range(SearchGroup)

\* A variable is unset (None), set to the empty string, or set to a value.
EnvValues == { None, "", "value" }

\* Python truthiness of an environment value: None and "" are falsy.
EnvTruthy(v) == v # None /\ v # ""

AllSet == [ n \in EnvNames |-> "value" ]

Missing(cfg) == { n \in EnvNames : ~EnvTruthy(cfg[n]) }

\* The environments with at most k variables unset or empty.
Environments(k) == { cfg \in [EnvNames -> EnvValues] : Cardinality(Missing(cfg)) <= k }

\* all([...]) over the values of one group.
PyAll(cfg, group) == \A i \in DOMAIN group : EnvTruthy(cfg[group[i]])

\* ------------------------------------------------------------- logging
Log(level, msg) == [ level |-> level, msg |-> msg ]

LogAttempt == Log("info", "Attempting to initialize RAG chain...")
LogEmbeddingsUnset ==
    Log("error", "Azure OpenAI Embeddings environment variables are not fully set.")
LogChatUnset == Log("error", "Azure OpenAI Chat environment variables are not fully set.")
LogSearchUnset == Log("error", "Azure AI Search environment variables are not fully set.")
LogChainReady == Log("info", "RAG chain initialized successfully.")
LogChainFailed == Log("error", "Failed to initialize RAG chain")
LogStartupCritical ==
    Log("critical", "CRITICAL: RAG Chain could not be initialized on startup. The /chat endpoint will not work.")

\* ------------------------------------------------------ create_rag_chain
\* The objects the try block constructs, in the order it constructs them.
ConstructionSteps == << "embeddings", "vector_store", "llm", "retriever", "prompt", "rag_chain" >>

RagChain == "rag_chain"

\* The log record create_rag_chain writes for an incomplete group.
GroupLog(group) ==
    CASE group = "embeddings" -> LogEmbeddingsUnset
      [] group = "chat" -> LogChatUnset
      [] group = "search" -> LogSearchUnset

FirstIncompleteSearchFirst(cfg) ==
    IF ~PyAll(cfg, SearchGroup) THEN "search"
    ELSE IF ~PyAll(cfg, ChatGroup) THEN "chat"
    ELSE IF ~PyAll(cfg, EmbeddingsGroup) THEN "embeddings"
    ELSE None

\* The group checks of create_rag_chain, in source order: the first incomplete
\* group, or None when all three groups are complete.
FirstIncomplete(cfg) ==
    IF ~PyAll(cfg, EmbeddingsGroup) THEN "embeddings"
    ELSE IF ~PyAll(cfg, ChatGroup) THEN "chat"
    ELSE IF ~PyAll(cfg, SearchGroup) THEN "search"
    ELSE None

create_rag_chain_no_try(cfg, failAt) ==
    LET bad == FirstIncomplete(cfg) IN
    IF bad # None
    THEN [ chain |-> None, log |-> << LogAttempt, GroupLog(bad) >>, built |-> {},
           raises |-> FALSE ]
    ELSE IF failAt = 0
    THEN [ chain |-> RagChain, log |-> << LogAttempt, LogChainReady >>,
           built |-> Range(ConstructionSteps), raises |-> FALSE ]
    ELSE [ chain |-> None, log |-> << LogAttempt >>,
           built |-> { ConstructionSteps[i] : i \in 1 .. (failAt - 1) }, raises |-> TRUE ]

\* create_rag_chain under environment cfg; failAt is the construction step that
\* raises (0: none does).  Returns the chain (or None), the log records written,
\* the objects constructed, and whether an exception leaves the function (the
\* try block holds every construction step and its handler catches Exception).
create_rag_chain(cfg, failAt) ==
    LET bad == FirstIncomplete(cfg) IN
    IF bad # None
    THEN [ chain |-> None, log |-> << LogAttempt, GroupLog(bad) >>, built |-> {},
           raises |-> FALSE ]
    ELSE IF failAt = 0
    THEN [ chain |-> RagChain, log |-> << LogAttempt, LogChainReady >>,
           built |-> Range(ConstructionSteps), raises |-> FALSE ]
    ELSE [ chain |-> None, log |-> << LogAttempt, LogChainFailed >>,
           built |-> { ConstructionSteps[i] : i \in 1 .. (failAt - 1) }, raises |-> FALSE ]

\* ------------------------------------------------------- request bodies
\* What request.get_json() returns: a JSON value as Python sees it.  kind is
\* the Python type; the other fields hold the value of that kind.
Json(kind, fields, elems, n) == [ kind |-> kind, fields |-> fields, elems |-> elems, n |-> n ]

NoFields == [ k \in {} |-> "" ]
JNull == Json("NoneType", NoFields, << >>, 0)
JObject(fields) == Json("dict", fields, << >>, 0)
JArray(elems) == Json("list", << >>, elems, 0)
JString(chars) == Json("str", NoFields, chars, 0)
JInt(n) == Json("int", NoFields, << >>, n)

QueryWord == << "q", "u", "e", "r", "y" >>

\* The values of the `query` key that are tried.
QueryValues == { "", "hi" }

Bodies ==
    { JNull, JInt(5), JArray(<< "query" >>), JString(<< >>), JString(<< "a" >> \o QueryWord) }
    \cup { JObject(NoFields), JObject([ k \in {"other"} |-> "x" ]) }
    \cup { JObject([ k \in {"query"} |-> q ]) : q \in QueryValues }

\* The outcome of request.get_json(): it raises (a body that is not JSON), or
\* returns the parsed value.
GetJsonOutcomes ==
    { [ raises |-> TRUE, value |-> JNull ] } \cup { [ raises |-> FALSE, value |-> b ] : b \in Bodies }

\* Python's `not data`.
PyFalsy(d) ==
    CASE d.kind = "NoneType" -> TRUE
      [] d.kind = "dict" -> DOMAIN d.fields = {}
      [] d.kind = "list" -> d.elems = << >>
      [] d.kind = "str" -> d.elems = << >>
      [] d.kind = "int" -> d.n = 0

\* `x in s` for strings: x occurs in s as a substring.
IsSubstring(x, s) ==
    \E i \in 0 .. (Len(s) - Len(x)) : SubSeq(s, i + 1, i + Len(x)) = x

\* Python's `'query' in data`: "TypeError" for a value that is no container.
PyContainsQuery(d) ==
    CASE d.kind = "dict" -> IF "query" \in DOMAIN d.fields THEN "True" ELSE "False"
      [] d.kind = "list" -> IF \E i \in DOMAIN d.elems : d.elems[i] = "query" THEN "True" ELSE "False"
      [] d.kind = "str" -> IF IsSubstring(QueryWord, d.elems) THEN "True" ELSE "False"
      [] OTHER -> "TypeError"

\* Python's data['query']: only a dict can be indexed by a string.
PySubscriptRaises(d) == d.kind # "dict"

\* --------------------------------------------------------- chat_endpoint
\* jsonify({"error": msg}), status
JsonError(status, msg) ==
    [ status |-> status, mimetype |-> "application/json", error |-> msg ]

\* Response(generate_stream(), mimetype='text/event-stream')
StreamResponse == [ status |-> 200, mimetype |-> "text/event-stream", error |-> "" ]

NoResponse == [ status |-> 0, mimetype |-> "", error |-> "" ]

MsgNotInitialized == "RAG chain not initialized. Server configuration issue."
MsgMissingQuery == "Missing 'query' field in request body"
MsgInternal == "An internal error occurred: <exception>"
MsgRateLimited == "API rate limit exceeded. Please try again later."

LogNotInitialized == Log("error", "RAG chain is not initialized. Cannot process request.")
LogBadRequest == Log("warning", "Received bad request: 'query' field missing.")
LogReceived == Log("info", "Received query for streaming")
LogBeforeStream == Log("error", "Error processing chat request (before stream)")

LogRateLimitBeforeStream == Log("warning", "Rate limit exceeded (before stream)")

\* What chat_endpoint does: the response, the log records, whether Response
\* wraps a new generate_stream() generator, that generator's user_query, and
\* the exception the try block raised ("" when it raised none).
Returns(response, log, opens, user_query, raised) ==
    [ response |-> response, log |-> log, opens |-> opens, user_query |-> user_query,
      raised |-> raised ]

OnPreStreamExceptionAlways429(exc) ==
    Returns(JsonError(429, MsgRateLimited), << LogRateLimitBeforeStream >>, FALSE, "", exc)

\* The handlers of the try block of chat_endpoint: except RateLimitError (log,
\* HTTP 429), then except Exception (log, HTTP 500).
OnPreStreamException(exc) ==
    IF exc = "RateLimitError"
    THEN Returns(JsonError(429, MsgRateLimited), << LogRateLimitBeforeStream >>, FALSE, "", exc)
    ELSE Returns(JsonError(500, MsgInternal), << LogBeforeStream >>, FALSE, "", exc)

\* The 400 answer to a body without `query`.
MissingQuery == Returns(JsonError(400, MsgMissingQuery), << LogBadRequest >>, FALSE, "", "")

ValidateNoTruthCheck(got) ==
    IF got.raises THEN OnPreStreamException("BadRequest")
    ELSE IF PyContainsQuery(got.value) = "TypeError" THEN OnPreStreamException("TypeError")
    ELSE IF PyContainsQuery(got.value) = "False" THEN MissingQuery
    ELSE IF PySubscriptRaises(got.value) THEN OnPreStreamException("TypeError")
    ELSE Returns(StreamResponse, << LogReceived >>, TRUE, got.value.fields["query"], "")

\* The try block of chat_endpoint, for what get_json() did: get_json raises
\* werkzeug's BadRequest, `in` and the subscript raise TypeError.
Validate(got) ==
    IF got.raises THEN OnPreStreamException("BadRequest")
    ELSE IF PyFalsy(got.value) THEN MissingQuery
    ELSE IF PyContainsQuery(got.value) = "TypeError" THEN OnPreStreamException("TypeError")
    ELSE IF PyContainsQuery(got.value) = "False" THEN MissingQuery
    ELSE IF PySubscriptRaises(got.value) THEN OnPreStreamException("TypeError")
    ELSE Returns(StreamResponse, << LogReceived >>, TRUE, got.value.fields["query"], "")

chat_endpoint_no_chain_check(chain, got) == Validate(got)

\* chat_endpoint: the response, the log records, whether Response wraps a new
\* generate_stream() generator, and that generator's user_query.
chat_endpoint(chain, got) ==
    IF chain = None
    THEN Returns(JsonError(500, MsgNotInitialized), << LogNotInitialized >>, FALSE, "", "")
    ELSE Validate(got)

chat_endpoint_global_reset(chain, got) == IF got.raises THEN None ELSE chain

\* rag_chain_instance_global after chat_endpoint: the handler declares the name
\* global and only reads it.
chat_endpoint_global(chain, got) == chain

\* ---------------------------------------------------------- health_check
HealthOk ==
    [ status |-> 200, body_status |-> "ok", rag_chain_initialized |-> TRUE,
      message |-> "Flask application is running and RAG chain is initialized." ]

HealthError ==
    [ status |-> 503, body_status |-> "error", rag_chain_initialized |-> FALSE,
      message |-> "Flask application is running, but the RAG chain failed to initialize. Check server logs for details." ]

NoHealth == [ status |-> 0, body_status |-> "", rag_chain_initialized |-> FALSE, message |-> "" ]

LogHealthFailed == Log("error", "Health check failed: RAG chain is not initialized.")

health_check_always_ok(chain) == [ response |-> HealthOk, log |-> << >> ]

health_check(chain) ==
    IF chain # None
    THEN [ response |-> HealthOk, log |-> << >> ]
    ELSE [ response |-> HealthError, log |-> << LogHealthFailed >> ]

\* ------------------------------------------------------ the rag_chain
\* A retrieved fragment: page_content, and metadata with or without `source`.
Fragment(has_source, source, content) ==
    [ has_source |-> has_source, source |-> source, content |-> content ]

Fragments ==
    { Fragment(TRUE, "a.md", c) : c \in { "x", "y" } }
    \cup { Fragment(FALSE, "", c) : c \in { "x", "y" } }

\* The fragment sequences of length at most n.
FragmentSeqs(n) == UNION { [ 1 .. k -> Fragments ] : k \in 0 .. n }

\* What the retriever returns in the runs of Spec and FairSpec (PipelineSpec
\* tries every fragment sequence).
FewFragmentSeqs == { << Fragment(TRUE, "a.md", "x") >> }

Sentinel == "No relevant context found in the documents."

\* doc.metadata.get('source', 'Unknown')
MetadataSource(doc) == IF doc.has_source THEN doc.source ELSE "Unknown"

\* f"Source: {...}\nContent: {doc.page_content}"
FormatDoc(doc) == "Source: " \o MetadataSource(doc) \o "\nContent: " \o doc.content

\* sep.join(parts)
RECURSIVE PyJoin(_, _)
PyJoin(sep, parts) ==
    IF parts = << >> THEN ""
    ELSE IF Len(parts) = 1 THEN parts[1]
    ELSE parts[1] \o sep \o PyJoin(sep, Tail(parts))

format_docs_reversed(docs) ==
    IF docs = << >> THEN Sentinel
    ELSE PyJoin("\n\n", [ i \in DOMAIN docs |-> FormatDoc(docs[Len(docs) + 1 - i]) ])

format_docs(docs) ==
    IF docs = << >> THEN Sentinel
    ELSE PyJoin("\n\n", [ i \in DOMAIN docs |-> FormatDoc(docs[i]) ])

\* prompt: the template with its {context} and {question} slots filled.
NoPrompt == [ context |-> "", question |-> "" ]

\* The stages of rag_chain in the order the composition runs them.
StageOrder == << "retriever", "format_docs", "prompt", "llm" >>

rag_chain_prepare_prompt_first(g, docs) ==
    [ g EXCEPT !.stages = << "prompt", "retriever", "format_docs" >>,
               !.retrieved = docs,
               !.context = format_docs(docs),
               !.prompt = [ context |-> "", question |-> g.user_query ] ]

\* {"context": retriever | format_docs, "question": RunnablePassthrough()} | prompt,
\* for the fragments the retriever returned: what runs before the llm.
rag_chain_prepare(g, docs) ==
    [ g EXCEPT !.stages = << "retriever", "format_docs", "prompt" >>,
               !.retrieved = docs,
               !.context = format_docs(docs),
               !.prompt = [ context |-> format_docs(docs), question |-> g.user_query ] ]

\* ------------------------------------------------------- generate_stream
\* One SSE record as written to the wire: event_line is the name on the
\* "event:" line ("" when the record has none), keys are the keys of the JSON
\* object on the "data:" line, followed by their values.
SseEvent(event_line, keys, token, error, code) ==
    [ event_line |-> event_line, keys |-> keys, token |-> token, error |-> error, code |-> code ]

MsgStreamRateLimited == "API rate limit exceeded during stream. Please try again later."
MsgStreamError == "An error occurred during streaming: <exception>"

\* f"data: {json.dumps({'token': chunk})}\n\n"
sse_formatted_chunk(chunk) == SseEvent("", {"token"}, chunk, "", 0)

\* f"event: error\ndata: {error_payload}\n\n" of the RateLimitError handler
sse_rate_limit_error == SseEvent("error", {"error", "code"}, "", MsgStreamRateLimited, 429)

sse_stream_error_with_code == SseEvent("error", {"error", "code"}, "", MsgStreamError, 429)

\* f"event: error\ndata: {error_payload}\n\n" of the Exception handler
sse_stream_error == SseEvent("error", {"error"}, "", MsgStreamError, 0)

LogStreamRateLimit == Log("warning", "Rate limit exceeded during stream")
LogStreamError == Log("error", "Error during stream generation")
LogStreamEnded == Log("info", "Stream ended for query")

\* The state of one /chat request: what get_json() did, the response returned,
\* the log records written for it, the exception chat_endpoint's try block
\* raised (pre_raised), and the generate_stream() generator
\* (gen: where its frame is; events: what it yielded; escaped: an exception
\* left it; closed: it was closed at a yield), with the pipeline iterator it
\* consumes (stream_calls: the arguments .stream was called with; pulls: the
\* times the iterator was advanced; produced: the chunks it gave; raised: what
\* it raised; failed_at: the stage that raised it; stages: the stages of the
\* chain that ran, in order; retrieved, context, prompt: what they gave).
NoRequest == [ raises |-> FALSE, value |-> JInt(-1) ]

Idle ==
    [ got |-> NoRequest, response |-> NoResponse, log |-> << >>, pre_raised |-> "",
      gen |-> "none", user_query |-> "", stream_calls |-> << >>, pulls |-> 0,
      produced |-> << >>, raised |-> "", escaped |-> FALSE, events |-> << >>,
      closed |-> FALSE,
      stages |-> << >>, retrieved |-> << >>, context |-> "", prompt |-> NoPrompt,
      failed_at |-> "" ]

\* The k-th chunk of the pipeline invocation of request r is empty or the k-th
\* token of that invocation.
Token(r, k) == r \o ":t" \o ToString(k)

PullResult(stage, kind, chunk, docs) ==
    [ stage |-> stage, kind |-> kind, chunk |-> chunk, docs |-> docs ]

\* What advancing the pipeline iterator of request r can do after it gave k
\* chunks.  On the first advance the retriever runs: it raises, or returns one
\* of docsets and the llm is called.  The llm ends, raises, or (when more is
\* true) gives its next chunk.
PullResults(r, k, more, first, docsets) ==
    LET ds == IF first THEN docsets ELSE { << >> } IN
    { PullResult("llm", x, "", d) : x \in { "StopIteration", "RateLimitError", "Exception" }, d \in ds }
    \cup ( IF more
           THEN { PullResult("llm", "chunk", c, d) : c \in { "", Token(r, k + 1) }, d \in ds }
           ELSE {} )
    \cup ( IF first
           THEN { PullResult("retriever", x, "", << >>) : x \in { "RateLimitError", "Exception" } }
           ELSE {} )

OnChunkForwardEmpty(g, chunk) ==
    [ g EXCEPT !.produced = Append(@, chunk), !.pulls = @ + 1,
               !.events = Append(@, sse_formatted_chunk(chunk)), !.gen = "token_yield" ]

\* The loop body for one chunk: yield it when it is truthy, then sleep.
OnChunk(g, chunk) ==
    IF chunk # ""
    THEN [ g EXCEPT !.produced = Append(@, chunk), !.pulls = @ + 1,
                    !.events = Append(@, sse_formatted_chunk(chunk)), !.gen = "token_yield" ]
    ELSE [ g EXCEPT !.produced = Append(@, chunk), !.pulls = @ + 1, !.gen = "running" ]

\* The finally clause.
Finally(g) == [ g EXCEPT !.log = Append(@, LogStreamEnded), !.gen = "ended" ]

OnStopIterationAsError(g) ==
    Finally([ g EXCEPT !.pulls = @ + 1, !.events = Append(@, sse_stream_error) ])

\* The for loop ends: the finally clause runs and the generator returns.
OnStopIteration(g) == Finally([ g EXCEPT !.pulls = @ + 1 ])

OnRateLimitErrorContinue(g) ==
    [ g EXCEPT !.pulls = @ + 1, !.raised = "RateLimitError",
               !.log = Append(@, LogStreamRateLimit),
               !.events = Append(@, sse_rate_limit_error), !.gen = "token_yield" ]

\* except RateLimitError: log, yield the error event.
OnRateLimitError(g) ==
    [ g EXCEPT !.pulls = @ + 1, !.raised = "RateLimitError",
               !.log = Append(@, LogStreamRateLimit),
               !.events = Append(@, sse_rate_limit_error), !.gen = "error_yield" ]

OnExceptionRetry(g) ==
    [ g EXCEPT !.pulls = @ + 1, !.raised = "Exception",
               !.log = Append(@, LogStreamError), !.gen = "created" ]

OnExceptionNoLog(g) ==
    [ g EXCEPT !.pulls = @ + 1, !.raised = "Exception",
               !.events = Append(@, sse_stream_error), !.gen = "error_yield" ]

OnExceptionUncaught(g) ==
    Finally([ g EXCEPT !.pulls = @ + 1, !.raised = "Exception", !.escaped = TRUE ])

\* except Exception: log, yield the error event.
OnException(g) ==
    [ g EXCEPT !.pulls = @ + 1, !.raised = "Exception",
               !.log = Append(@, LogStreamError),
               !.events = Append(@, sse_stream_error), !.gen = "error_yield" ]

OnGeneratorExitNoFinally(g) == [ g EXCEPT !.closed = TRUE, !.gen = "ended" ]

\* close() on the suspended generator: GeneratorExit is raised at the yield; it
\* is no Exception, so no handler catches it and only the finally clause runs.
OnGeneratorExit(g) == Finally([ g EXCEPT !.closed = TRUE ])

\* The generator runs from where it is to its next pull's outcome.  The first
\* pull calls .stream(user_query) and runs the chain up to the llm.
generate_stream(g, res) ==
    LET called == IF g.gen = "created"
                  THEN [ g EXCEPT !.stream_calls = Append(@, g.user_query) ]
                  ELSE g
        started == IF g.gen = "created" /\ res.stage = "llm"
                   THEN rag_chain_prepare(called, res.docs)
                   ELSE called
        llm == IF res.stage = "llm" /\ started.stages # StageOrder
               THEN [ started EXCEPT !.stages = Append(@, "llm") ]
               ELSE started
    IN CASE res.kind = "chunk" -> OnChunk(llm, res.chunk)
         [] res.kind = "StopIteration" -> OnStopIteration(llm)
         [] res.kind = "RateLimitError" -> [ OnRateLimitError(llm) EXCEPT !.failed_at = res.stage ]
         [] res.kind = "Exception" -> [ OnException(llm) EXCEPT !.failed_at = res.stage ]

\* ------------------------------------------------------------ the state
VARIABLES
    config,                     \* the environment the module read at import
    phase,                      \* "startup" until the module body has run, then "serving"
                                \* ("crashed" when an exception ended the import)
    rag_chain_instance_global,  \* the cached chain, or None
    built,                      \* the objects create_rag_chain constructed
    startup_log,                \* the log records of the module body
    chat,                       \* the state of each /chat request
    health                      \* the first and the last /health answer, and the last one's log

\* The chunks the pipeline has produced so far, for all requests.
RECURSIVE ChunkCount(_)
ChunkCount(rs) ==
    IF rs = {} THEN 0
    ELSE LET r == CHOOSE x \in rs : TRUE IN Len(chat[r].produced) + ChunkCount(rs \ { r })

vars == << config, phase, rag_chain_instance_global, built, startup_log, chat, health >>

InitWith(configs) ==
    /\ config \in configs
    /\ phase = "startup"
    /\ rag_chain_instance_global = None
    /\ built = {}
    /\ startup_log = << >>
    /\ chat = [ r \in Requests |-> Idle ]
    /\ health = [ first |-> NoHealth, last |-> NoHealth, log |-> << >> ]

Init == InitWith(Environments(MaxMissing))

\* with app.app_context(): rag_chain_instance_global = create_rag_chain() ...
Startup ==
    /\ phase = "startup"
    /\ \E failAt \in 0 .. Len(ConstructionSteps) :
         LET made == create_rag_chain(config, failAt) IN
         /\ rag_chain_instance_global' = made.chain
         /\ built' = made.built
         /\ startup_log' = IF made.chain = None /\ ~made.raises
                           THEN Append(made.log, LogStartupCritical)
                           ELSE made.log
         /\ phase' = IF made.raises THEN "crashed" ELSE "serving"
    /\ UNCHANGED << config, chat, health >>

\* POST /chat: chat_endpoint runs to its return.
ChatRequest(r) ==
    /\ phase = "serving"
    /\ chat[r].response = NoResponse
    /\ \E got \in GetJsonOutcomes :
         LET h == chat_endpoint(rag_chain_instance_global, got) IN
         /\ chat' = [ chat EXCEPT ![r] =
                        [ @ EXCEPT !.got = got, !.response = h.response, !.log = h.log,
                                !.pre_raised = h.raised,
                                !.gen = IF h.opens THEN "created" ELSE "none",
                                !.user_query = h.user_query ] ]
         /\ rag_chain_instance_global' = chat_endpoint_global(rag_chain_instance_global, got)
    /\ UNCHANGED << config, phase, built, startup_log, health >>

AdvanceWithShared(r, docsets) ==
    /\ chat[r].gen \in { "created", "running", "token_yield" }
    /\ \E res \in PullResults(r, Len(chat[r].produced), ChunkCount(Requests) < MaxChunks,
                               chat[r].gen = "created", docsets) :
         chat' = [ q \in Requests |->
                     IF chat[q].gen \in { "running", "token_yield" } \/ q = r
                     THEN generate_stream(chat[q], res)
                     ELSE chat[q] ]
    /\ UNCHANGED << config, phase, rag_chain_instance_global, built, startup_log, health >>

\* The server asks the generator for its next item; the generator advances the
\* pipeline iterator once.  docsets: what the retriever may return.
AdvanceWith(r, docsets) ==
    /\ chat[r].gen \in { "created", "running", "token_yield" }
    /\ \E res \in PullResults(r, Len(chat[r].produced), ChunkCount(Requests) < MaxChunks,
                               chat[r].gen = "created", docsets) :
         chat' = [ chat EXCEPT ![r] = generate_stream(@, res) ]
    /\ UNCHANGED << config, phase, rag_chain_instance_global, built, startup_log, health >>

Advance(r) == AdvanceWith(r, FewFragmentSeqs)

\* The server asks for the item after the error event: the handler falls
\* through to the finally clause and the generator returns.
Finish(r) ==
    /\ chat[r].gen = "error_yield"
    /\ chat' = [ chat EXCEPT ![r] = Finally(@) ]
    /\ UNCHANGED << config, phase, rag_chain_instance_global, built, startup_log, health >>

\* The client is gone when the server writes an item: the server closes the
\* generator, GeneratorExit is raised at the yield it is suspended at, and only
\* the finally clause runs.
Disconnect(r) ==
    /\ chat[r].gen \in { "token_yield", "error_yield" }
    /\ chat' = [ chat EXCEPT ![r] = OnGeneratorExit(@) ]
    /\ UNCHANGED << config, phase, rag_chain_instance_global, built, startup_log, health >>

\* GET /health
Health ==
    /\ phase = "serving"
    /\ LET h == health_check(rag_chain_instance_global) IN
       health' = [ first |-> IF health.first = NoHealth THEN h.response ELSE health.first,
                   last |-> h.response, log |-> h.log ]
    /\ UNCHANGED << config, phase, rag_chain_instance_global, built, startup_log, chat >>

Next ==
    \/ Startup
    \/ \E r \in Requests : ChatRequest(r)
    \/ \E r \in Requests : Advance(r)
    \/ \E r \in Requests : Finish(r)
    \/ \E r \in Requests : Disconnect(r)
    \/ Health

Spec == Init /\ [][Next]_vars

\* One request, every environment variable set, and every fragment sequence of
\* at most MaxDocs fragments as the retriever's answer.
NextPipeline ==
    \/ Startup
    \/ ChatRequest("c1")
    \/ AdvanceWith("c1", FragmentSeqs(MaxDocs))
    \/ Finish("c1")
    \/ Disconnect("c1")

PipelineSpec == InitWith({ AllSet }) /\ [][NextPipeline]_vars

\* The server keeps asking a generator it holds for its next item.  Streams are
\* opened only when every environment variable is set, so this specification
\* starts from that environment.
FairSpec ==
    /\ InitWith({ AllSet })
    /\ [][Next]_vars
    /\ \A r \in Requests : WF_vars(Advance(r)) /\ WF_vars(Finish(r))

\* ------------------------------------------------------------- helpers
Handled(r) == chat[r].response # NoResponse

Serving == phase = "serving"

NonEmptyChunk(c) == c # ""

\* The chunks of a sequence that are not empty, in order.
NonEmpty(chunks) == SelectSeq(chunks, NonEmptyChunk)

IsTokenEvent(e) == e.event_line = "" /\ e.keys = { "token" }

IsErrorEvent(e) == e.event_line = "error"

\* The tokens of the token events of a stream, in wire order.
ObservedTokens(events) ==
    LET toks == SelectSeq(events, IsTokenEvent) IN [ i \in DOMAIN toks |-> toks[i].token ]

ErrorEvents(events) == SelectSeq(events, IsErrorEvent)

\* No stream was opened for the request and no stream byte was produced.
NoStream(r) ==
    /\ chat[r].gen = "none"
    /\ chat[r].events = << >>
    /\ chat[r].stream_calls = << >>
    /\ chat[r].pulls = 0
    /\ chat[r].response.mimetype # "text/event-stream"

IsMissingQuery400(resp) ==
    /\ resp.status = 400
    /\ resp.mimetype = "application/json"
    /\ resp.error = "Missing 'query' field in request body"

\* ------------------------------------------------------------------ C1
\* The parsed body is None, empty, or a JSON object without the key.
ParsedWithoutQuery(got) ==
    /\ ~got.raises
    /\ \/ got.value.kind = "NoneType"
       \/ got.value.kind = "dict" /\ "query" \notin DOMAIN got.value.fields
       \/ got.value.kind = "str" /\ got.value.elems = << >>

\* C1 as stated: every POST /chat whose input lacks a `query` key gets HTTP 400
\* with the fixed error and no stream, whether the chain is present or absent.
C1_AsStated ==
    \A r \in Requests :
        Handled(r) /\ ParsedWithoutQuery(chat[r].got)
            => IsMissingQuery400(chat[r].response) /\ NoStream(r)

\* C1 (amended): while the chain is present, every POST /chat whose parsed body
\* is None, empty, or a JSON object without the `query` key gets HTTP 400 with
\* the fixed error "Missing 'query' field in request body", and no event stream
\* is opened and no stream byte is produced.
C1_MissingQuery400 ==
    \A r \in Requests :
        Handled(r) /\ rag_chain_instance_global # None /\ ParsedWithoutQuery(chat[r].got)
            => IsMissingQuery400(chat[r].response) /\ NoStream(r)

C1_Witness ==
    \E r \in Requests :
        /\ Handled(r) /\ rag_chain_instance_global # None
        /\ chat[r].got.value.kind = "NoneType" /\ ~chat[r].got.raises
        /\ chat[r].response.status = 400

\* ------------------------------------------------------------------ C2
\* C2: while the chain is None every POST /chat gets HTTP 500 with the error
\* "RAG chain not initialized. Server configuration issue.", opens no stream
\* and never invokes the pipeline; and the chain is None after every startup in
\* which an environment variable was unset or empty.
C2_NoChain500 ==
    Serving =>
        /\ Missing(config) # {} => rag_chain_instance_global = None
        /\ rag_chain_instance_global = None =>
              \A r \in Requests :
                  Handled(r) =>
                      /\ chat[r].response.status = 500
                      /\ chat[r].response.mimetype = "application/json"
                      /\ chat[r].response.error = "RAG chain not initialized. Server configuration issue."
                      /\ NoStream(r)

C2_Witness ==
    \E r \in Requests :
        /\ Missing(config) # {} /\ rag_chain_instance_global = None
        /\ Handled(r) /\ ~chat[r].got.raises
        /\ chat[r].got.value.kind = "dict" /\ "query" \in DOMAIN chat[r].got.value.fields
        /\ chat[r].got.value.fields["query"] = "hi"
        /\ chat[r].response.status = 500

\* ------------------------------------------------------------------ C3
\* C3: in every stream the tokens of the token events are exactly the chunks
\* the pipeline produced with the empty ones removed, in the same order, one
\* event per non-empty chunk; a stream that ends by exhaustion holds nothing
\* but these token events.
C3_TokensAreNonEmptyChunks ==
    \A r \in Requests :
        /\ ObservedTokens(chat[r].events) = NonEmpty(chat[r].produced)
        /\ chat[r].gen = "ended" /\ chat[r].raised = ""
              => /\ Len(chat[r].events) = Len(NonEmpty(chat[r].produced))
                 /\ \A i \in DOMAIN chat[r].events : IsTokenEvent(chat[r].events[i])

C3_Witness ==
    \E r \in Requests :
        /\ chat[r].gen = "ended" /\ chat[r].raised = "" /\ ~chat[r].closed
        /\ Len(chat[r].produced) = 3
        /\ chat[r].produced[1] # "" /\ chat[r].produced[2] = "" /\ chat[r].produced[3] # ""
        /\ Len(chat[r].events) = 2

\* ------------------------------------------------------------------ C4
\* C4: when the pipeline raised RateLimitError, the stream holds the token
\* events of the non-empty chunks produced before it, then exactly one
\* `event: error` record with code 429, and nothing else; the generator is at
\* that yield or has ended, and the pipeline was advanced only once more than
\* the chunks it gave (never after the error).
C4_RateLimitEndsStream ==
    \A r \in Requests :
        chat[r].raised = "RateLimitError" =>
            LET n == Len(chat[r].events) IN
            /\ n = Len(NonEmpty(chat[r].produced)) + 1
            /\ ObservedTokens(SubSeq(chat[r].events, 1, n - 1)) = NonEmpty(chat[r].produced)
            /\ IsErrorEvent(chat[r].events[n])
            /\ "code" \in chat[r].events[n].keys /\ chat[r].events[n].code = 429
            /\ Len(ErrorEvents(chat[r].events)) = 1
            /\ chat[r].gen \in { "error_yield", "ended" }
            /\ chat[r].pulls = Len(chat[r].produced) + 1

C4_Witness ==
    \E r \in Requests :
        /\ chat[r].raised = "RateLimitError" /\ chat[r].gen = "ended" /\ ~chat[r].closed
        /\ Len(chat[r].produced) = 2 /\ Len(chat[r].events) = 3

\* ------------------------------------------------------------------ C5
\* C5: when the pipeline raised another exception, the stream holds the token
\* events so far, then exactly one `event: error` record with an error message
\* and no code, and nothing else; and an error record carries code 429 exactly
\* when the pipeline raised RateLimitError.
C5_OtherErrorHasNoCode ==
    \A r \in Requests :
        /\ chat[r].raised = "Exception" =>
              LET n == Len(chat[r].events) IN
              /\ n = Len(NonEmpty(chat[r].produced)) + 1
              /\ IsErrorEvent(chat[r].events[n])
              /\ chat[r].events[n].keys = { "error" } /\ chat[r].events[n].error # ""
              /\ Len(ErrorEvents(chat[r].events)) = 1
              /\ chat[r].gen \in { "error_yield", "ended" }
        /\ \A i \in DOMAIN chat[r].events :
              IsErrorEvent(chat[r].events[i]) =>
                  ( ("code" \in chat[r].events[i].keys /\ chat[r].events[i].code = 429)
                      <=> chat[r].raised = "RateLimitError" )

C5_Witness ==
    \E r \in Requests :
        /\ chat[r].raised = "Exception" /\ chat[r].gen = "ended" /\ ~chat[r].closed
        /\ Len(chat[r].events) = 2

\* ------------------------------------------------------------------ C6
\* C6: a request whose stream was opened keeps its HTTP 200 text/event-stream
\* response; every pipeline failure of the stream, also one on the first pull,
\* shows as an `event: error` record that is the last record of the stream, and
\* no exception leaves the generator.
C6_FailuresAreSseEvents ==
    \A r \in Requests :
        chat[r].gen # "none" =>
            /\ chat[r].response.status = 200
            /\ chat[r].response.mimetype = "text/event-stream"
            /\ ~chat[r].escaped
            /\ chat[r].raised # "" =>
                  /\ chat[r].events # << >>
                  /\ IsErrorEvent(chat[r].events[Len(chat[r].events)])

C6_Witness ==
    \E r \in Requests :
        /\ chat[r].raised = "Exception" /\ chat[r].pulls = 1 /\ chat[r].produced = << >>
        /\ chat[r].response.status = 200 /\ Len(chat[r].events) = 1

\* ------------------------------------------------------------------ C7
IsCompletionRecord(rec) == rec = LogStreamEnded

\* The completion log records written for a request.
Completions(r) == Len(SelectSeq(chat[r].log, IsCompletionRecord))

\* C7: every stream that was opened ends (the generator reaches its end); a
\* stream that ended has exactly one completion log record, whether it ended by
\* exhaustion, after a rate-limit error, after another error, or because it was
\* closed at a yield on a client disconnect, and a stream that has not ended
\* has none; nothing happens to a request after its stream ended.
C7_StreamEndsAndLogsOnce ==
    /\ \A r \in Requests : (chat[r].gen = "created") ~> (chat[r].gen = "ended")
    /\ [](\A r \in Requests :
             Completions(r) = IF chat[r].gen = "ended" THEN 1 ELSE 0)
    /\ [][\A r \in Requests : chat[r].gen = "ended" => chat'[r] = chat[r]]_vars

C7_Witness ==
    \E r \in Requests :
        /\ chat[r].gen = "ended" /\ chat[r].closed /\ chat[r].raised = "RateLimitError"
        /\ Completions(r) = 1

\* ------------------------------------------------------------------ C8
\* C8: every /health answer is HTTP 200 with status "ok" and
\* rag_chain_initialized true when the chain is not None, and HTTP 503 with
\* status "error" and rag_chain_initialized false when it is None; the last
\* answer equals the first one, whatever /chat and /health requests came
\* between them.
C8_HealthReflectsChain ==
    health.last # NoHealth =>
        /\ health.first = health.last
        /\ IF rag_chain_instance_global # None
           THEN /\ health.last.status = 200
                /\ health.last.body_status = "ok"
                /\ health.last.rag_chain_initialized = TRUE
           ELSE /\ health.last.status = 503
                /\ health.last.body_status = "error"
                /\ health.last.rag_chain_initialized = FALSE

C8_Witness ==
    /\ health.last # NoHealth /\ health.last.status = 503
    /\ \E r \in Requests : Handled(r)

\* ------------------------------------------------------------------ C9
\* C9 as stated: the pipeline's stream operation is never called with an empty
\* query, a request whose `query` is the empty string being rejected first.
C9_AsStated ==
    \A r \in Requests :
        \A i \in DOMAIN chat[r].stream_calls : chat[r].stream_calls[i] # ""

\* ----------------------------------------------------------------- C10
\* The first group, in the order embeddings, chat, search, that has a variable
\* unset or empty.
ExpectedGroupLog ==
    IF Missing(config) \cap Range(EmbeddingsGroup) # {}
    THEN Log("error", "Azure OpenAI Embeddings environment variables are not fully set.")
    ELSE IF Missing(config) \cap Range(ChatGroup) # {}
    THEN Log("error", "Azure OpenAI Chat environment variables are not fully set.")
    ELSE Log("error", "Azure AI Search environment variables are not fully set.")

\* C10: after a startup in which any variable of any group is unset or empty,
\* the chain is None, no client object was constructed, and the error logged
\* names the first incomplete group in the order embeddings, chat, search.
C10_IncompleteGroupReported ==
    Serving /\ Missing(config) # {} =>
        /\ rag_chain_instance_global = None
        /\ built = {}
        /\ startup_log = << LogAttempt, ExpectedGroupLog, LogStartupCritical >>

C10_Witness ==
    /\ Serving
    /\ Missing(config) \cap Range(EmbeddingsGroup) = {}
    /\ Missing(config) \cap Range(ChatGroup) # {}
    /\ Missing(config) \cap Range(SearchGroup) # {}
    /\ startup_log[2] = LogChatUnset

\* ----------------------------------------------------------------- C11
\* C11: the module import never ends by an exception of create_rag_chain; when
\* every group is complete the chain is a pipeline exactly when every
\* construction step succeeded, and otherwise it is None and the failure was
\* logged; with the chain None the server serves /chat with HTTP 500 and
\* /health with HTTP 503.
C11_ConstructionNeverRaises ==
    /\ phase # "crashed"
    /\ Serving /\ Missing(config) = {} =>
          /\ rag_chain_instance_global = RagChain <=> built = Range(ConstructionSteps)
          /\ rag_chain_instance_global # RagChain =>
                /\ rag_chain_instance_global = None
                /\ \E i \in DOMAIN startup_log :
                      startup_log[i] = Log("error", "Failed to initialize RAG chain")
    /\ Serving /\ rag_chain_instance_global = None =>
          /\ \A r \in Requests : Handled(r) => chat[r].response.status = 500
          /\ health.last # NoHealth => health.last.status = 503

C11_Witness ==
    /\ Serving /\ Missing(config) = {} /\ rag_chain_instance_global = None
    /\ built = { "embeddings", "vector_store", "llm" }
    /\ \E r \in Requests : Handled(r) /\ chat[r].response.status = 500
    /\ health.last.status = 503

\* ----------------------------------------------------------------- C12
\* C12: a request whose handler raised before the Response object was built
\* gets an ordinary JSON error response, HTTP 429 when the exception was
\* RateLimitError and HTTP 500 otherwise, and no stream is opened for it.
C12_PreStreamErrorsAreHttp ==
    \A r \in Requests :
        chat[r].pre_raised # "" =>
            /\ chat[r].response.mimetype = "application/json"
            /\ chat[r].response.error # ""
            /\ chat[r].response.status = IF chat[r].pre_raised = "RateLimitError" THEN 429 ELSE 500
            /\ NoStream(r)

C12_Witness ==
    \E r \in Requests :
        /\ chat[r].got.raises /\ chat[r].pre_raised = "BadRequest"
        /\ chat[r].response.status = 500

\* ----------------------------------------------------------------- C13
\* The record of one fragment, as C13 states it.
ExpectedRecord(doc) ==
    IF doc.has_source
    THEN "Source: " \o doc.source \o "\nContent: " \o doc.content
    ELSE "Source: Unknown\nContent: " \o doc.content

\* The records of the fragments in retrieval order, a blank line between two.
RECURSIVE ExpectedBlock(_)
ExpectedBlock(docs) ==
    IF Len(docs) = 1 THEN ExpectedRecord(docs[1])
    ELSE ExpectedBlock(SubSeq(docs, 1, Len(docs) - 1)) \o "\n\n" \o ExpectedRecord(docs[Len(docs)])

\* C13: the context format_docs gives is the sentinel "No relevant context
\* found in the documents." for the empty fragment sequence, and for a
\* non-empty one the fragments' "Source: ...\nContent: ..." records (source
\* "Unknown" when the metadata has none) joined by a blank line in retrieval
\* order; it is the sentinel only for the empty sequence.
C13_ContextBlock ==
    \A r \in Requests :
        Len(chat[r].stages) >= 2 =>
            /\ chat[r].retrieved = << >> =>
                  chat[r].context = "No relevant context found in the documents."
            /\ chat[r].retrieved # << >> => chat[r].context = ExpectedBlock(chat[r].retrieved)
            /\ chat[r].context = "No relevant context found in the documents."
                  => chat[r].retrieved = << >>

C13_Witness ==
    \E r \in Requests :
        /\ Len(chat[r].retrieved) = 2
        /\ ~chat[r].retrieved[1].has_source /\ chat[r].retrieved[2].has_source
        /\ chat[r].context = "Source: Unknown\nContent: y\n\nSource: a.md\nContent: x"

\* ----------------------------------------------------------------- C14
\* C14: for every /chat request .stream is called at most once (never for a
\* request without a stream), and once the pipeline raised, it is not advanced
\* again and not called again: the generator is at the error yield or has
\* ended, with one pull more than chunks and exactly one error record.
C14_NoRetry ==
    \A r \in Requests :
        /\ Len(chat[r].stream_calls) <= 1
        /\ chat[r].gen = "none" => chat[r].stream_calls = << >>
        /\ chat[r].raised # "" =>
              /\ Len(chat[r].stream_calls) = 1
              /\ chat[r].pulls = Len(chat[r].produced) + 1
              /\ Len(ErrorEvents(chat[r].events)) = 1
              /\ chat[r].gen \in { "error_yield", "ended" }

C14_Witness ==
    \E r \in Requests :
        /\ chat[r].raised = "Exception" /\ chat[r].gen = "ended"
        /\ Len(chat[r].stream_calls) = 1 /\ chat[r].pulls = 3 /\ Len(chat[r].produced) = 2

\* ----------------------------------------------------------------- C17
IsPrefix(s, t) == Len(s) <= Len(t) /\ \A i \in DOMAIN s : s[i] = t[i]

\* C17: the stages of one pipeline invocation run in the order retriever,
\* format_docs, prompt, llm; a stream holds a token event only after all four
\* ran, the prompt holding the formatted context and the query; and when the
\* retriever raised, the stream holds no token event and exactly one error
\* record.
C17_StagesInOrder ==
    \A r \in Requests :
        /\ IsPrefix(chat[r].stages, << "retriever", "format_docs", "prompt", "llm" >>)
        /\ ObservedTokens(chat[r].events) # << >> =>
              /\ Len(chat[r].stages) = 4
              /\ chat[r].prompt = [ context |-> chat[r].context, question |-> chat[r].user_query ]
        /\ chat[r].failed_at = "retriever" =>
              /\ chat[r].stages = << >>
              /\ ObservedTokens(chat[r].events) = << >>
              /\ Len(chat[r].events) = 1
              /\ IsErrorEvent(chat[r].events[1])

C17_Witness ==
    \E r \in Requests :
        /\ chat[r].failed_at = "retriever" /\ chat[r].raised = "Exception"
        /\ chat[r].gen = "ended" /\ ~chat[r].closed /\ Len(chat[r].events) = 1

\* ----------------------------------------------------------------- C15
\* C15: the chain is None and no request has been handled until the module
\* body has run; the only step that changes rag_chain_instance_global is that
\* startup step, so under every interleaving of /chat streams and /health
\* requests its value stays what startup made it.
C15_SingletonAssignedOnce ==
    /\ [](phase = "startup" =>
             /\ rag_chain_instance_global = None
             /\ health.last = NoHealth
             /\ \A r \in Requests : ~Handled(r))
    /\ [][rag_chain_instance_global' # rag_chain_instance_global
             => phase = "startup" /\ phase' = "serving"]_vars
    /\ [][phase = "serving"
             => phase' = "serving" /\ rag_chain_instance_global' = rag_chain_instance_global]_vars

C15_Witness ==
    /\ Serving /\ rag_chain_instance_global = RagChain
    /\ health.last.status = 200
    /\ chat["c1"].gen = "token_yield" /\ chat["c2"].gen = "ended"
    /\ chat["c2"].got.raises = FALSE /\ chat["c2"].raised = "Exception"

\* ----------------------------------------------------------------- C16
\* C16: every token event on a connection is a chunk of that request's own
\* pipeline invocation, and the tokens of a connection are its own non-empty
\* chunks in order; every step changes the state of at most one request, so an
\* event or an error of one stream neither appears on nor ends nor alters
\* another.
C16_StreamsAreIsolated ==
    /\ [](\A r \in Requests :
             /\ \A i \in DOMAIN chat[r].events :
                   IsTokenEvent(chat[r].events[i]) =>
                       \E k \in DOMAIN chat[r].produced :
                           /\ chat[r].produced[k] = chat[r].events[i].token
                           /\ chat[r].events[i].token = Token(r, k)
             /\ ObservedTokens(chat[r].events) = NonEmpty(chat[r].produced))
    /\ [][\A r, q \in Requests :
             r # q /\ chat'[r] # chat[r] => chat'[q] = chat[q]]_vars

C16_Witness ==
    /\ chat["c1"].raised = "RateLimitError" /\ chat["c1"].gen = "ended"
    /\ Len(ObservedTokens(chat["c1"].events)) = 1
    /\ chat["c2"].raised = "" /\ chat["c2"].gen = "ended" /\ ~chat["c2"].closed
    /\ Len(ObservedTokens(chat["c2"].events)) = 2

\* ----------------------------------------------------------------- C18
HasLevel(log, levels) == \E i \in DOMAIN log : log[i].level \in levels

HasRecord(log, rec) == \E i \in DOMAIN log : log[i] = rec

\* C18: every error path leaves a log record or an error payload: an
\* incomplete group and a construction exception an error record of startup; a
\* missing query a warning and the 400 payload; an exception before the stream
\* a record and a JSON error payload; a rate limit or another exception inside
\* a stream both its log record and an `event: error` record.
C18_NoErrorDropped ==
    /\ Serving /\ rag_chain_instance_global = None => HasLevel(startup_log, { "error" })
    /\ \A r \in Requests :
          /\ Handled(r) /\ chat[r].response.status >= 400 =>
                /\ HasLevel(chat[r].log, { "warning", "error" })
                /\ chat[r].response.error # ""
          /\ chat[r].pre_raised # "" => HasLevel(chat[r].log, { "warning", "error" })
          /\ chat[r].raised = "RateLimitError" =>
                /\ HasRecord(chat[r].log, Log("warning", "Rate limit exceeded during stream"))
                /\ Len(ErrorEvents(chat[r].events)) >= 1
          /\ chat[r].raised = "Exception" =>
                /\ HasRecord(chat[r].log, Log("error", "Error during stream generation"))
                /\ Len(ErrorEvents(chat[r].events)) >= 1

C18_Witness ==
    \E r \in Requests :
        /\ chat[r].raised = "Exception" /\ chat[r].gen = "error_yield"
        /\ Len(chat[r].produced) = 1
        /\ HasLevel(chat[r].log, { "error" }) /\ Len(ErrorEvents(chat[r].events)) = 1

\* ----------------------------------------------------------------- C19
\* C19: a stream exists only while the chain is not None and for a body that is
\* a JSON object holding `query`; .stream is called only by a generator that
\* was started, after the HTTP 200 stream response was returned; no handler
\* raised RateLimitError before the stream and no /chat response has status
\* 429.
C19_StreamOnlyWhenValid ==
    \A r \in Requests :
        /\ chat[r].gen # "none" =>
              /\ rag_chain_instance_global # None
              /\ ~chat[r].got.raises
              /\ chat[r].got.value.kind = "dict"
              /\ "query" \in DOMAIN chat[r].got.value.fields
        /\ chat[r].stream_calls # << >> =>
              /\ chat[r].response.status = 200
              /\ chat[r].response.mimetype = "text/event-stream"
              /\ chat[r].gen \notin { "none", "created" }
        /\ chat[r].pre_raised # "RateLimitError"
        /\ chat[r].response.status # 429

C19_Witness ==
    \E r \in Requests :
        /\ chat[r].stream_calls = << "hi" >> /\ chat[r].gen = "running"
        /\ chat[r].response.status = 200 /\ rag_chain_instance_global # None

\* ----------------------------------------------------------------- C20
\* C20: a stream holds at most one token event per chunk the pipeline gave and
\* at most one error record, which is then its last record; a stream that
\* ended by exhaustion holds no error record; and once the pipeline sequence
\* was consumed to its end or its first failure the generator pulls no more
\* (it has ended, or is at the error yield).
C20_BoundedEvents ==
    \A r \in Requests :
        /\ Len(ObservedTokens(chat[r].events)) <= Len(chat[r].produced)
        /\ Len(ErrorEvents(chat[r].events)) <= 1
        /\ Len(chat[r].events) = Len(ObservedTokens(chat[r].events)) + Len(ErrorEvents(chat[r].events))
        /\ \A i \in DOMAIN chat[r].events :
              IsErrorEvent(chat[r].events[i]) => i = Len(chat[r].events)
        /\ chat[r].gen = "ended" /\ chat[r].raised = "" => ErrorEvents(chat[r].events) = << >>
        /\ chat[r].pulls > Len(chat[r].produced) => chat[r].gen \in { "error_yield", "ended" }

C20_Witness ==
    \E r \in Requests :
        /\ chat[r].gen = "ended" /\ chat[r].raised = "" /\ ~chat[r].closed
        /\ Len(chat[r].produced) = 3 /\ chat[r].pulls = 4 /\ Len(chat[r].events) = 1

====
